---- MODULE Spec2Model ----
(***************************************************************************)
(* User-based collaborative filtering (src/userCF/model.py, class UserCF): *)
(* the entity store built by form_item_objects, the similarity matrix      *)
(* built by form_users_distance_matrix, the ranker make_recommendation and *)
(* the evaluation loop of evaluate.                                        *)
(*                                                                         *)
(* Numbers.  A stored matrix value is the exact real (p + q*sqrt(D))/d,    *)
(* kept as the record [p, q, d] in lowest terms, where D is                *)
(* |covered_items(A)| * |covered_items(B)| of the entry's pair (A, B).     *)
(* Python computes the same values in doubles.  The ranker orders users    *)
(* and items on a fixed-point image of the values (Approx); wherever two   *)
(* keys lie within the image's error of each other, and wherever Python's  *)
(* order rests on the iteration order of a set or a dict, every order is   *)
(* explored.  assert statements are executed (CPython's default, no -O).   *)
(***************************************************************************)
EXTENDS Integers, Sequences, FiniteSets, TLC

\* The ids that occur in the explored inputs.
UserIds == {1, 2, 3}
ItemIds == {11, 12, 13}
\* Column 'event' of a row: 1 is a view, 2 add-to-cart, 3 a transaction.
EventKinds == {1, 2, 3}
\* The (visitorid, itemid) pairs a row of the explored frames may hold, any
\* number of times and in any order: user 1 may touch items 11 and 12, user 2
\* every item, user 3 item 13.
RowPairs == {<<1, 11>>, <<1, 12>>, <<2, 11>>, <<2, 12>>, <<2, 13>>, <<3, 13>>}
\* The k, n and ensure_new of the training object (train_user_fc_model).
TrainK == 80
TrainN == 20

\* Bounds of the exploration.
MaxK == 2
MaxN == 2
MaxBuilds == 2
MaxTestUsers == 2
\* Fixed-point unit of the ranker's keys.
Scale == 10000

\* The all_user_id arguments explored for the constructor.
DeclaredChoices == SUBSET UserIds

VARIABLES
    pc,               \* where the model object's caller stands
    all_user_id,      \* argument of __init__
    k, n, ensure_new, \* self.k, self.n, self.ensure_new
    users,            \* self.users: user id -> covered_items
    items,            \* self.items: item id -> covered_users
    user_sim_matrix,  \* self.user_sim_matrix: user id -> (user id -> value)
    event_data,       \* the distinct (visitorid, itemid) rows left by the filter
    entry_matrix,     \* user_sim_matrix as it was when the running build was entered
    builds,           \* completed calls of form_users_distance_matrix
    pending,          \* keys of user_sim_matrix the dividing loop has not visited
    ret,              \* the latest call of make_recommendation and its outcome
    test_seen,        \* the test users evaluate's loop has gone through
    total_recall, total_precision, n_valid_users, covered_items,  \* evaluate's locals
    result            \* the record evaluate returned

vars == <<pc, all_user_id, k, n, ensure_new, users, items, user_sim_matrix,
          event_data, entry_matrix, builds, pending, ret, test_seen,
          total_recall, total_precision, n_valid_users, covered_items, result>>

build_vars == <<users, items, user_sim_matrix, event_data, entry_matrix, builds, pending>>
eval_vars == <<ret, test_seen, total_recall, total_precision, n_valid_users,
               covered_items, result>>

----------------------------------------------------------------------------
\* Arithmetic on the stored values.

RECURSIVE GCD(_, _)
GCD(a, b) == IF b = 0 THEN a ELSE GCD(b, a % b)

RECURSIVE IsqrtIn(_, _, _)
\* The largest r in lo..hi with r*r <= x (lo*lo <= x is given).
IsqrtIn(x, lo, hi) ==
    IF lo >= hi THEN lo
    ELSE LET mid == (lo + hi + 1) \div 2
         IN  IF mid * mid <= x THEN IsqrtIn(x, mid, hi) ELSE IsqrtIn(x, lo, mid - 1)

Isqrt(x) == IsqrtIn(x, 0, IF x < 46340 THEN x ELSE 46340)

\* (p + q*sqrt(D))/d in lowest terms; a square D folds q into p.
Canon(p, q, d, D) ==
    LET r  == Isqrt(D)
        sq == r * r = D
        p1 == IF sq THEN p + q * r ELSE p
        q1 == IF sq THEN 0 ELSE q
        g  == GCD(GCD(p1, q1), d)
    IN  [p |-> p1 \div g, q |-> q1 \div g, d |-> d \div g]

\* count_dict[user_B_id] = 1
One == [p |-> 1, q |-> 0, d |-> 1]

\* count_dict[user_B_id] += 1
PlusOne(v) == [p |-> v.p + v.d, q |-> v.q, d |-> v.d]

\* count[another_user_id] /= sqrt(D)
DivSqrt(v, D) == Canon(v.q * D, v.p, v.d * D, D)

\* count[another_user_id] <= 1
LeqOne(v, D) ==
    /\ v.p <= v.d
    /\ v.q * v.q * D <= (v.d - v.p) * (v.d - v.p)

----------------------------------------------------------------------------
\* Entity store.

Put(f, key, val) == [x \in DOMAIN f \cup {key} |-> IF x = key THEN val ELSE f[x]]

\* form_item_row with a new user's record created without the item.
form_item_row_new_user_empty(us, its, user_id, item_id) ==
    [items |-> IF item_id \in DOMAIN its
               THEN [its EXCEPT ![item_id] = @ \cup {user_id}]
               ELSE Put(its, item_id, {user_id}),
     users |-> IF user_id \in DOMAIN us
               THEN [us EXCEPT ![user_id] = @ \cup {item_id}]
               ELSE Put(us, user_id, {})]

\* One row of form_item_objects: record the pair on the item and on the user.
form_item_row(us, its, user_id, item_id) ==
    [items |-> IF item_id \in DOMAIN its
               THEN [its EXCEPT ![item_id] = @ \cup {user_id}]
               ELSE Put(its, item_id, {user_id}),
     users |-> IF user_id \in DOMAIN us
               THEN [us EXCEPT ![user_id] = @ \cup {item_id}]
               ELSE Put(us, user_id, {item_id})]

RECURSIVE form_item_objects(_, _, _)
\* form_item_objects over the rows of a whole frame.
form_item_objects(us, its, rows) ==
    IF rows = {} THEN [items |-> its, users |-> us]
    ELSE LET row == CHOOSE r \in rows : TRUE
             s   == form_item_row(us, its, row[1], row[2])
         IN  form_item_objects(s.users, s.items, rows \ {row})

----------------------------------------------------------------------------
\* Similarity matrix.

\* update_user_count_dict that stores 1 where it should add 1.
update_user_count_dict_set_one(m, user_A_id, user_B_id) ==
    LET count_dict == IF user_A_id \in DOMAIN m THEN m[user_A_id] ELSE <<>>
    IN  Put(m, user_A_id, Put(count_dict, user_B_id, One))

update_user_count_dict(m, user_A_id, user_B_id) ==
    LET count_dict == IF user_A_id \in DOMAIN m THEN m[user_A_id] ELSE <<>>
        val == IF user_B_id \in DOMAIN count_dict
               THEN PlusOne(count_dict[user_B_id])
               ELSE One
    IN  Put(m, user_A_id, Put(count_dict, user_B_id, val))

\* The index pairs i < j of the list made of an item's covered_users.
UserPairs(covered_users) == {P \in SUBSET covered_users : Cardinality(P) = 2}

RECURSIVE count_pairs(_, _)
count_pairs(m, pairs) ==
    IF pairs = {} THEN m
    ELSE LET P == CHOOSE x \in pairs : TRUE
             A == CHOOSE x \in P : TRUE
             B == CHOOSE x \in P : x # A
         IN  count_pairs(update_user_count_dict(update_user_count_dict(m, A, B), B, A),
                         pairs \ {P})

RECURSIVE count_items(_, _, _)
\* The counting loop over self.items.values().
count_items(m, its, todo) ==
    IF todo = {} THEN m
    ELSE LET i == CHOOSE x \in todo : TRUE
         IN  count_items(count_pairs(m, UserPairs(its[i])), its, todo \ {i})

Perms(S) == {f \in [1..Cardinality(S) -> S] : \A i, j \in DOMAIN f : f[i] = f[j] => i = j}

\* Radicand with the user's own count taken for the other user's.
Radicand_own_count_twice(us, user_id, another_user_id) ==
    Cardinality(us[user_id]) * Cardinality(us[user_id])

\* sqrt's argument for the entry (user_id, another_user_id).
Radicand(us, user_id, another_user_id) ==
    Cardinality(us[user_id]) * Cardinality(us[another_user_id])

RECURSIVE divide_counts(_, _, _, _, _)
\* The inner dividing loop over count.keys() in the order ord, from index i:
\* each value is divided and then asserted; a failed assert ends the loop.
divide_counts(count, us, user_id, ord, i) ==
    IF i > Len(ord) THEN [count |-> count, ok |-> TRUE]
    ELSE LET D == Radicand(us, user_id, ord[i])
             v == DivSqrt(count[ord[i]], D)
             c == [count EXCEPT ![ord[i]] = v]
         IN  IF LeqOne(v, D) THEN divide_counts(c, us, user_id, ord, i + 1)
             ELSE [count |-> c, ok |-> FALSE]

----------------------------------------------------------------------------
\* Ranker.

Range(f) == {f[x] : x \in DOMAIN f}

\* The fixed-point image of the value v of an entry with radicand D.
Approx(v, D) == (v.p * Scale + v.q * Isqrt(D * Scale * Scale)) \div v.d

\* Two sums of images of equal values differ by less than this.
Tol == 4 * (Cardinality(UserIds) - 1)

\* SortedDesc without reverse=True: ascending.
SortedDesc_ascending(f) ==
    {ord \in Perms(DOMAIN f) :
        \A i, j \in DOMAIN ord : i < j => f[ord[i]] <= f[ord[j]] + Tol}

\* The results sorted(..., key, reverse=True) may give for the keys of f.
SortedDesc(f) ==
    {ord \in Perms(DOMAIN f) :
        \A i, j \in DOMAIN ord : i < j => f[ord[i]] + Tol >= f[ord[j]]}

Take(seq, m) == SubSeq(seq, 1, IF Len(seq) < m THEN Len(seq) ELSE m)

RECURSIVE item_score(_, _, _, _, _, _)
\* items_rank[item_id] once rank_potential_items has gone through related[i..].
item_score(us, m, target_user_id, related, item_id, i) ==
    IF i > Len(related) THEN 0
    ELSE (IF item_id \in us[related[i]]
          THEN Approx(m[target_user_id][related[i]],
                      Radicand(us, target_user_id, related[i]))
          ELSE 0)
         + item_score(us, m, target_user_id, related, item_id, i + 1)

rank_potential_items(us, m, en, target_user_id, related) ==
    LET ranked == {item_id \in UNION {us[related[i]] : i \in DOMAIN related} :
                      ~(en /\ item_id \in us[target_user_id])}
    IN  [item_id \in ranked |-> item_score(us, m, target_user_id, related, item_id, 1)]

\* get_top_n_items with the slice one too long.
get_top_n_items_off_by_one(items_rank, nn) ==
    {IF Len(items_id) < nn THEN items_id ELSE Take(items_id, nn + 1) :
        items_id \in SortedDesc(items_rank)}

get_top_n_items(items_rank, nn) ==
    {IF Len(items_id) < nn THEN items_id ELSE SubSeq(items_id, 1, nn) :
        items_id \in SortedDesc(items_rank)}

\* What a call returns or raises, with the related_users_id and the items_rank
\* it worked on (empty when it ended before making them).
Code(c) == [kind |-> "code", code |-> c, items |-> <<>>,
            related |-> <<>>, rank |-> <<>>]
Raise(related, items_rank) ==
    [kind |-> "AssertionError", code |-> 0, items |-> <<>>,
     related |-> related, rank |-> items_rank]
List(l, related, items_rank) ==
    [kind |-> "list", code |-> 0, items |-> l,
     related |-> related, rank |-> items_rank]

\* The outcomes a call make_recommendation(user_id) may have.
make_recommendation(us, m, kk, nn, en, user_id) ==
    IF user_id \notin DOMAIN us \/ user_id \notin DOMAIN m
    THEN {Code(-2)}
    ELSE IF Cardinality(DOMAIN m[user_id]) = 0
    THEN {Code(-1)}
    ELSE LET sims == [c \in DOMAIN m[user_id] |->
                         Approx(m[user_id][c], Radicand(us, user_id, c))]
         IN  UNION {
               LET related_users_id == IF Len(ord) >= kk THEN SubSeq(ord, 1, kk) ELSE ord
                   items_rank == rank_potential_items(us, m, en, user_id, related_users_id)
               IN  IF ~(Cardinality(DOMAIN items_rank) > 0)
                   THEN {Raise(related_users_id, items_rank)}
                   ELSE IF en /\ Cardinality(DOMAIN items_rank) = 0 THEN {Code(-3)}
                   ELSE {List(l, related_users_id, items_rank) :
                            l \in get_top_n_items(items_rank, nn)}
               : ord \in SortedDesc(sims)}

\* compute_n_hit that counts every real item as a hit.
compute_n_hit_counts_all(out, real_items) ==
    IF out.kind # "list" THEN -1 ELSE Cardinality(real_items)

\* compute_n_hit on the outcome of its call of make_recommendation: -1 for
\* anything but a list, else the number of real items in the list.
compute_n_hit(out, real_items) ==
    IF out.kind # "list" THEN -1
    ELSE Cardinality({item_id \in real_items : item_id \in Range(out.items)})

----------------------------------------------------------------------------
\* Fractions, for evaluate's sums and results.

Frac(a, b) == LET g == GCD(a, b) IN [num |-> a \div g, den |-> b \div g]
FracAdd(x, y) == Frac(x.num * y.den + y.num * x.den, x.den * y.den)
Zero == [num |-> 0, den |-> 1]

\* The real_items a test user may have.
TestItemSets == (SUBSET ItemIds) \ {{}}

NoRet == [user |-> 0, out |-> Code(0)]
NoResult == [recall |-> Zero, precision |-> Zero, coverage |-> Zero]

----------------------------------------------------------------------------

Init ==
    /\ pc = "init"
    /\ all_user_id \in DeclaredChoices
    /\ k = TrainK
    /\ n = TrainN
    /\ ensure_new = TRUE
    /\ users = <<>>
    /\ items = <<>>
    /\ user_sim_matrix = [u \in all_user_id |-> <<>>]
    /\ event_data = {}
    /\ entry_matrix = [u \in all_user_id |-> <<>>]
    /\ builds = 0
    /\ pending = {}
    /\ ret = NoRet
    /\ test_seen = {}
    /\ total_recall = Zero
    /\ total_precision = Zero
    /\ n_valid_users = 0
    /\ covered_items = {}
    /\ result = NoResult

\* form_users_distance_matrix is called on the constructed model.
BeginBuild ==
    /\ pc = "init"
    /\ pc' = "scan"
    /\ entry_matrix' = user_sim_matrix
    /\ UNCHANGED <<all_user_id, k, n, ensure_new, users, items, user_sim_matrix,
                   event_data, builds, pending>>
    /\ UNCHANGED eval_vars

\* The next row of the frame: a view is dropped by the filter, any other row
\* goes through one iteration of form_item_objects.
ScanRowOf(pairs) ==
    /\ pc = "scan"
    /\ \E row \in pairs, event \in EventKinds :
         IF event = 1
         THEN UNCHANGED <<users, items, event_data>>
         ELSE LET s == form_item_row(users, items, row[1], row[2])
              IN  /\ users' = s.users
                  /\ items' = s.items
                  /\ event_data' = event_data \cup {row}
    /\ UNCHANGED <<pc, all_user_id, k, n, ensure_new, user_sim_matrix,
                   entry_matrix, builds, pending>>
    /\ UNCHANGED eval_vars

ScanRow == ScanRowOf(RowPairs)

\* The same step on frames whose rows may hold any user with any item.
ScanAnyRow == ScanRowOf(UserIds \X ItemIds)

\* The frame is exhausted: the counting loop runs over every item.
CountPairs ==
    /\ pc \in {"scan", "scanned"}
    /\ pc' = "divide"
    /\ user_sim_matrix' = count_items(user_sim_matrix, items, DOMAIN items)
    /\ pending' = DOMAIN user_sim_matrix'
    /\ UNCHANGED <<all_user_id, k, n, ensure_new, users, items, event_data,
                   entry_matrix, builds>>
    /\ UNCHANGED eval_vars

\* One iteration of the dividing loop over user_sim_matrix.items().
DivideRow ==
    /\ pc = "divide"
    /\ pending # {}
    /\ \E user_id \in pending :
         IF user_id \notin DOMAIN users
         THEN /\ pending' = pending \ {user_id}
              /\ UNCHANGED <<pc, user_sim_matrix>>
         ELSE \E ord \in Perms(DOMAIN user_sim_matrix[user_id]) :
                LET r == divide_counts(user_sim_matrix[user_id], users, user_id, ord, 1)
                IN  /\ user_sim_matrix' = [user_sim_matrix EXCEPT ![user_id] = r.count]
                    /\ pending' = pending \ {user_id}
                    /\ pc' = IF r.ok THEN "divide" ELSE "AssertionError"
    /\ UNCHANGED <<all_user_id, k, n, ensure_new, users, items, event_data,
                   entry_matrix, builds>>
    /\ UNCHANGED eval_vars

\* The dividing loop is over: form_users_distance_matrix returns.
EndBuild ==
    /\ pc = "divide"
    /\ pending = {}
    /\ pc' = "built"
    /\ builds' = builds + 1
    /\ UNCHANGED <<all_user_id, k, n, ensure_new, users, items, user_sim_matrix,
                   event_data, entry_matrix, pending>>
    /\ UNCHANGED eval_vars

\* form_users_distance_matrix is called again with the same frame: the filter
\* and form_item_objects run over the same rows.
Rebuild ==
    /\ pc = "built"
    /\ builds < MaxBuilds
    /\ pc' = "scanned"
    /\ entry_matrix' = user_sim_matrix
    /\ LET s == form_item_objects(users, items, event_data)
       IN  /\ users' = s.users
           /\ items' = s.items
    /\ UNCHANGED <<all_user_id, k, n, ensure_new, user_sim_matrix, event_data,
                   builds, pending>>
    /\ UNCHANGED eval_vars

\* save, then evaluate_user_fc_model's UserCF([], k, n, ensure_new) and load:
\* the evaluation object holds the saved users, items and user_sim_matrix.
Load ==
    /\ pc = "built"
    /\ pc' = "loaded"
    /\ k' \in 1..MaxK
    /\ n' \in 1..MaxN
    /\ ensure_new' \in BOOLEAN
    /\ all_user_id' = {}
    /\ event_data' = {}
    /\ entry_matrix' = <<>>
    /\ builds' = 0
    /\ UNCHANGED <<users, items, user_sim_matrix, pending>>
    /\ UNCHANGED eval_vars

\* A call of make_recommendation on the evaluation object.
Recommend ==
    /\ pc = "loaded"
    /\ \E user_id \in UserIds :
         \E out \in make_recommendation(users, user_sim_matrix, k, n, ensure_new, user_id) :
            ret' = [user |-> user_id, out |-> out]
    /\ UNCHANGED <<pc, all_user_id, k, n, ensure_new>>
    /\ UNCHANGED build_vars
    /\ UNCHANGED <<test_seen, total_recall, total_precision, n_valid_users,
                   covered_items, result>>

\* evaluate is called: its locals are set.
EvaluateBegin ==
    /\ pc = "loaded"
    /\ pc' = "evaluate"
    /\ ret' = NoRet
    /\ test_seen' = {}
    /\ total_recall' = Zero
    /\ total_precision' = Zero
    /\ n_valid_users' = 0
    /\ covered_items' = {}
    /\ UNCHANGED <<all_user_id, k, n, ensure_new, result>>
    /\ UNCHANGED build_vars

\* One iteration of evaluate's loop, for the next unique visitorid of the test
\* frame and the unique itemids of its rows.
EvaluateUser ==
    /\ pc = "evaluate"
    /\ Cardinality(test_seen) < MaxTestUsers
    /\ \E user_id \in UserIds \ test_seen, real_items \in TestItemSets :
         \E out \in make_recommendation(users, user_sim_matrix, k, n, ensure_new, user_id) :
            LET n_hit == compute_n_hit(out, real_items)
            IN  /\ ret' = [user |-> user_id, out |-> out]
                /\ test_seen' = test_seen \cup {user_id}
                /\ IF out.kind = "AssertionError"
                   THEN /\ pc' = "evaluate_AssertionError"
                        /\ UNCHANGED <<total_recall, total_precision, n_valid_users,
                                       covered_items>>
                   ELSE IF out.kind # "list"
                   THEN UNCHANGED <<pc, total_recall, total_precision, n_valid_users,
                                    covered_items>>
                   ELSE /\ total_recall' =
                              FracAdd(total_recall, Frac(n_hit, Cardinality(real_items)))
                        /\ total_precision' =
                              FracAdd(total_precision, Frac(n_hit, Len(out.items)))
                        /\ n_valid_users' = n_valid_users + 1
                        /\ covered_items' = covered_items \cup Range(out.items)
                        /\ UNCHANGED pc
    /\ UNCHANGED <<all_user_id, k, n, ensure_new, result>>
    /\ UNCHANGED build_vars

\* The loop is over: the means are taken and the record is returned.
EvaluateEnd ==
    /\ pc = "evaluate"
    /\ IF n_valid_users = 0 \/ Cardinality(DOMAIN items) = 0
       THEN /\ pc' = "evaluate_ZeroDivisionError"
            /\ UNCHANGED result
       ELSE /\ pc' = "returned"
            /\ result' =
                 [recall    |-> Frac(total_recall.num, total_recall.den * n_valid_users),
                  precision |-> Frac(total_precision.num,
                                     total_precision.den * n_valid_users),
                  coverage  |-> Frac(Cardinality(covered_items),
                                     Cardinality(DOMAIN items))]
    /\ UNCHANGED <<all_user_id, k, n, ensure_new>>
    /\ UNCHANGED build_vars
    /\ UNCHANGED <<ret, test_seen, total_recall, total_precision, n_valid_users,
                   covered_items>>

Next ==
    \/ BeginBuild
    \/ ScanRow
    \/ CountPairs
    \/ DivideRow
    \/ EndBuild
    \/ Rebuild
    \/ Load
    \/ Recommend
    \/ EvaluateBegin
    \/ EvaluateUser
    \/ EvaluateEnd

Spec == Init /\ [][Next]_vars

\* Training on frames of any rows, then make_recommendation on the loaded
\* model.
NextRanker ==
    \/ BeginBuild
    \/ ScanAnyRow
    \/ CountPairs
    \/ DivideRow
    \/ EndBuild
    \/ Rebuild
    \/ Load
    \/ Recommend

SpecRanker == Init /\ [][NextRanker]_vars

----------------------------------------------------------------------------
\* Properties.

\* The number of items I with A and B both in covered_users(I).
Shared(A, B) == Cardinality({I \in DOMAIN items : A \in items[I] /\ B \in items[I]})

HasEntry(m, A, B) == A \in DOMAIN m /\ B \in DOMAIN m[A]

\* The build in progress started from a matrix without any entry.
FreshBuild == \A u \in DOMAIN entry_matrix : DOMAIN entry_matrix[u] = {}

\* The state between the counting loop and the dividing loop.
Counted == pc = "divide" /\ pending = DOMAIN user_sim_matrix

Terminated == pc \in {"returned", "evaluate_ZeroDivisionError", "evaluate_AssertionError"}

\* C7: after every prefix of the scan, user U is in items[I].covered_users
\* exactly when item I is in users[U].covered_items, each side implying that
\* its record exists.
C7_StoreMutuallyConsistent ==
    \A U \in UserIds \cup DOMAIN users, I \in ItemIds \cup DOMAIN items :
        (I \in DOMAIN items /\ U \in items[I]) <=> (U \in DOMAIN users /\ I \in users[U])

C7_Witness ==
    /\ pc = "scan"
    /\ \E U \in DOMAIN users : Cardinality(users[U]) >= 2
    /\ \E I \in DOMAIN items : Cardinality(items[I]) >= 2

C2_SimilarityBoundedSymmetric ==
    pc = "built" =>
        \A A \in DOMAIN user_sim_matrix : \A B \in DOMAIN user_sim_matrix[A] :
            LET v == user_sim_matrix[A][B]
                D == Cardinality(users[A]) * Cardinality(users[B])
                c == Shared(A, B)
            IN  /\ v.d > 0 /\ v.p >= 0 /\ v.q >= 0 /\ v.p + v.q > 0
                /\ v.p <= v.d /\ v.q * v.q * D <= (v.d - v.p) * (v.d - v.p)
                /\ HasEntry(user_sim_matrix, B, A)
                /\ user_sim_matrix[B][A] = v
                /\ FreshBuild =>
                     /\ c > 0 /\ c * c <= D
                     /\ LET r == Isqrt(D)
                        IN  IF r * r = D
                            THEN v.q = 0 /\ v.p * r = c * v.d
                            ELSE v.p = 0 /\ v.q * D = c * v.d

C2_Witness ==
    /\ pc = "built"
    /\ FreshBuild
    /\ \E A \in DOMAIN user_sim_matrix :
          /\ Cardinality(DOMAIN user_sim_matrix[A]) = 2
          /\ \E B \in DOMAIN user_sim_matrix[A] :
                /\ user_sim_matrix[A][B].q > 0
                /\ Shared(A, B) = 2
                /\ Cardinality(users[A]) # Cardinality(users[B])

\* C4: a second run of form_users_distance_matrix on the same frame
\* completes and leaves the matrix the first run left.
C4_RebuildIdempotent ==
    /\ (pc = "built" /\ builds >= 2) => user_sim_matrix = entry_matrix
    /\ pc = "AssertionError" => builds = 0

\* C9: when form_users_distance_matrix has returned, every declared user id
\* and every user of the entity store has a sub-mapping, empty for a user
\* that shares no item with another user.
C9_EveryKnownUserHasSubMapping ==
    pc = "built" =>
        \A u \in all_user_id \cup DOMAIN users :
            /\ u \in DOMAIN user_sim_matrix
            /\ (u \notin DOMAIN users \/ \A v \in DOMAIN users \ {u} : Shared(u, v) = 0)
                  => DOMAIN user_sim_matrix[u] = {}

\* C5: a list returned by make_recommendation has at most n items, and with
\* ensure_new none of them is in the target user's covered_items.
C5_AtMostNAndNoRepeat ==
    ret.out.kind = "list" =>
        /\ Len(ret.out.items) <= n
        /\ ensure_new => \A i \in DOMAIN ret.out.items :
                            ret.out.items[i] \notin users[ret.user]

C5_Witness ==
    /\ ret.out.kind = "list"
    /\ ensure_new
    /\ Len(ret.out.items) = n
    /\ k >= Cardinality(DOMAIN user_sim_matrix[ret.user])
    /\ \E c \in DOMAIN user_sim_matrix[ret.user] :
          \E item_id \in users[c] \ users[ret.user] : item_id \notin Range(ret.out.items)

\* C8: make_recommendation for a user of the entity store that shares no item
\* with another user gives -1, and for a user id absent from the entity store
\* it gives -2.
C8_NoSimilarUsersCode ==
    ret.user \in UserIds =>
        /\ (ret.user \in DOMAIN users
              /\ \A v \in DOMAIN users \ {ret.user} : Shared(ret.user, v) = 0)
             => ret.out = Code(-1)
        /\ ret.user \notin DOMAIN users => ret.out = Code(-2)

\* C1: an iteration of evaluate's loop whose make_recommendation gives no list
\* leaves evaluate in its loop and leaves total_recall, total_precision,
\* covered_items and n_valid_users as they were.
C1_FailedUserIsSkipped ==
    [][(pc = "evaluate" /\ test_seen' # test_seen /\ ret'.out.kind # "list")
          => (pc' = "evaluate"
              /\ UNCHANGED <<total_recall, total_precision, covered_items,
                             n_valid_users>>)]_vars

\* C6: when evaluate ends with n_valid_users = 0 it ends with the division by
\* zero of its means (the NoValidUsers failure), and returns no record.
C6_NoValidUsersFailure ==
    (Terminated /\ n_valid_users = 0) => pc = "evaluate_ZeroDivisionError"

\* C10: every valid user adds a recall and a precision in [0, 1] to
\* evaluate's sums (hits <= |true items| and hits <= |recommended items|), the
\* recommended items evaluate collects are items of the store, and the
\* recall, precision and coverage of a returned record are each in [0, 1].
InUnit(x) == x.den > 0 /\ 0 <= x.num /\ x.num <= x.den

\* 0 <= y - x <= 1, for fractions with positive denominators.
AddedInUnit(x, y) ==
    /\ x.num * y.den <= y.num * x.den
    /\ y.num * x.den - x.num * y.den <= x.den * y.den

C10_MetricsInUnitInterval ==
    /\ [](/\ total_recall.den > 0 /\ total_precision.den > 0
          /\ covered_items \subseteq DOMAIN items
          /\ pc = "returned" =>
                /\ InUnit(result.recall)
                /\ InUnit(result.precision)
                /\ InUnit(result.coverage))
    /\ [][n_valid_users' # n_valid_users =>
             /\ AddedInUnit(total_recall, total_recall')
             /\ AddedInUnit(total_precision, total_precision')]_vars

C10_Witness ==
    /\ pc = "returned"
    /\ n_valid_users = 2
    /\ 0 < result.recall.num /\ result.recall.num < result.recall.den
    /\ 0 < result.precision.num /\ result.precision.num < result.precision.den
    /\ result.coverage.num < result.coverage.den

\* C11: for a user of the store with a non-empty sub-mapping,
\* make_recommendation works on exactly min(k, number of co-users) co-users,
\* none of lower similarity than a co-user left out; when it returns a list,
\* the candidates are the items of those co-users (less the target's own with
\* ensure_new), each with the sum of the similarities of the selected co-users
\* that cover it as its score, and the list is the first min(n, number of
\* candidates) of them in non-increasing score order: no listed item scores
\* lower than a later or an unlisted one.  With users 1: {11, 12},
\* 2: {11, 12, 13}, 3: {13}, k = 1, n = 2 and ensure_new the list for
\* user 1 is [13].
Min(a, b) == IF a < b THEN a ELSE b

\* similarity(target, c), as the ranker reads it.
SimKey(target, c) ==
    Approx(user_sim_matrix[target][c],
           Cardinality(users[target]) * Cardinality(users[c]))

RECURSIVE SimSum(_, _)
SimSum(target, S) ==
    IF S = {} THEN 0
    ELSE LET c == CHOOSE x \in S : TRUE
         IN  SimKey(target, c) + SimSum(target, S \ {c})

Scenario == (1 :> {11, 12}) @@ (2 :> {11, 12, 13}) @@ (3 :> {13})

C11_TopKSumTopN ==
    (/\ ret.user \in DOMAIN users
     /\ ret.user \in DOMAIN user_sim_matrix
     /\ DOMAIN user_sim_matrix[ret.user] # {}) =>
        LET u     == ret.user
            o     == ret.out
            co    == DOMAIN user_sim_matrix[u]
            sel   == Range(o.related)
            cand  == {i \in UNION {users[c] : c \in sel} :
                         ~(ensure_new /\ i \in users[u])}
        IN  /\ o.kind \in {"list", "AssertionError"}
            /\ sel \subseteq co
            /\ Len(o.related) = Min(k, Cardinality(co))
            /\ Cardinality(sel) = Len(o.related)
            /\ \A c \in sel : \A x \in co \ sel : SimKey(u, c) >= SimKey(u, x)
            /\ o.kind = "list" =>
                 /\ DOMAIN o.rank = cand
                 /\ \A i \in cand :
                       o.rank[i] = SimSum(u, {c \in sel : i \in users[c]})
                 /\ Len(o.items) = Min(n, Cardinality(cand))
                 /\ Range(o.items) \subseteq cand
                 /\ Cardinality(Range(o.items)) = Len(o.items)
                 /\ \A a, b \in DOMAIN o.items :
                       a < b => o.rank[o.items[a]] >= o.rank[o.items[b]]
                 /\ \A a \in DOMAIN o.items : \A i \in cand \ Range(o.items) :
                       o.rank[o.items[a]] >= o.rank[i]
                 /\ (users = Scenario /\ k = 1 /\ n = 2 /\ ensure_new /\ u = 1)
                       => o.items = <<13>>

\* A call where both co-users are consulted, one candidate is covered by both
\* of them and so scores the sum of two similarities, and n cuts the candidate
\* that only one of them covers.
C11_Witness ==
    /\ users = (1 :> {11}) @@ (2 :> {11, 12, 13}) @@ (3 :> {11, 12})
    /\ k = 2 /\ n = 1 /\ ensure_new
    /\ ret.user = 1
    /\ ret.out.kind = "list"
    /\ Range(ret.out.related) = {2, 3}
    /\ DOMAIN ret.out.rank = {12, 13}
    /\ ret.out.rank[12] = SimKey(1, 2) + SimKey(1, 3)
    /\ ret.out.rank[13] = SimKey(1, 2)
    /\ SimKey(1, 3) > 0
    /\ ret.out.items = <<12>>

\* A call of the scenario's user 2 where k leaves out the less similar co-user.
C11_CoUserCut ==
    /\ users = Scenario /\ k = 1 /\ ~ensure_new
    /\ ret.user = 2
    /\ ret.out.kind = "list"
    /\ ret.out.related = <<1>>
    /\ SimKey(2, 1) > SimKey(2, 3)

\* The scenario's call: user 1, k = 1, n = 2, ensure_new.
C11_ScenarioCall ==
    /\ users = Scenario /\ k = 1 /\ n = 2 /\ ensure_new
    /\ ret.user = 1
    /\ ret.out.kind = "list"

====
